---- MODULE Spec2Model ----
(***************************************************************************)
(* Group-chat orchestration of autogen/agentchat/groupchat2.py:            *)
(* GroupChat2 (the ledger and the speaker selector) and GroupChatManager2  *)
(* (the blocking run_chat and the suspendable a_run_chat).                 *)
(*                                                                         *)
(* Participants are represented by their names (names are unique within a  *)
(* roster, and the code compares participants by identity).  Python's None *)
(* and a key missing from a dict are the values None and Absent.           *)
(***************************************************************************)
EXTENDS Integers, Sequences, FiniteSets, TLC

VARIABLES
  agents,                    \* GroupChat2.agents: the roster, in order
  messages,                  \* GroupChat2.messages: the ledger
  max_round,                 \* GroupChat2.max_round
  admin_name,                \* GroupChat2.admin_name
  func_call_filter,          \* GroupChat2.func_call_filter
  speaker_selection_method,  \* GroupChat2.speaker_selection_method
  allow_repeat_speaker,      \* GroupChat2.allow_repeat_speaker (bool or list)
  function_map,              \* each participant's function table
  last_speaker,              \* the last_speaker argument of the next select_speaker call
  sel,                       \* the last select_speaker call: its arguments, inputs and outcome
  rr_trace,                  \* speakers returned by consecutive calls, each fed back as last_speaker
  next_call,                 \* a stand-alone next_agent call: its arguments and its result
  built,                     \* the GroupChat2 as constructed (with an empty ledger)
  resets,                    \* number of reset() calls so far
  pc, i, message, speaker,   \* run_chat: position, loop index and locals
  selected, log, result, error, exit,   \* run_chat: selections, calls made, outcome
  a_messages,                \* the ledger of the GroupChat2 driven by a_run_chat
  a_pc, a_i, a_message, a_speaker,      \* a_run_chat: position, loop index and locals
  a_selected, a_log, a_result, a_error, a_exit,
  _registry,                 \* SerializableRegistry._registry: type name -> registered class
  cls_to_model,              \* each class's to_model attribute: the type names it was wrapped under
  store_call                 \* the last call on the registry: its arguments and its outcome

gcVars == <<agents, messages, max_round, admin_name, func_call_filter,
            speaker_selection_method, allow_repeat_speaker, function_map>>
selVars == <<last_speaker, sel, rr_trace, next_call>>
syncVars == <<pc, i, message, speaker, selected, log, result, error, exit>>
asyncVars == <<a_messages, a_pc, a_i, a_message, a_speaker, a_selected, a_log,
               a_result, a_error, a_exit>>
runVars == <<built, resets, syncVars, asyncVars>>
storeVars == <<_registry, cls_to_model, store_call>>

None == "None"
Absent == "<absent>"

Range(s) == {s[k] : k \in 1..Len(s)}
InSeq(s, x) == \E k \in 1..Len(s) : s[k] = x
\* list.index: the 0-based position of the first occurrence (the caller checks InSeq)
IndexOf(s, x) == (CHOOSE k \in 1..Len(s) : s[k] = x /\ \A j \in 1..(k - 1) : s[j] # x) - 1

(***************************************************************************)
(* Bounds of the explored inputs.                                          *)
(***************************************************************************)
MaxMessages == 1    \* longest ledger handed to a stand-alone select_speaker call
MaxSelections == 4  \* longest chain of fed-back selections

Rosters == {<<"Admin", "Coder">>, <<"Admin", "Coder", "Reviewer">>}
SmallRosters == {<<>>, <<"Admin">>}   \* under-populated rosters
Outsider == "User"   \* a participant that is not on the roster (an initiating user proxy)
Methods == {"auto", "manual", "random", "round_robin", "ROUND_ROBIN"}
UnknownMethods == {"bogus", ""}
\* who holds "f" (the requested function) and who holds only "g"
TablePatterns == {<<{}, {}>>, <<{"Coder"}, {}>>, <<{"Admin", "Coder"}, {}>>,
                  <<{}, {"Reviewer"}>>, <<{}, {"Coder", "Reviewer"}>>}
FunctionTables(roster) ==
  {[a \in Range(roster) \cup {Outsider} |->
      IF a \in p[1] THEN {"f"} ELSE IF a \in p[2] THEN {"g"} ELSE {}] : p \in TablePatterns}

AllowBool(b) == [isbool |-> TRUE, val |-> b, list |-> <<>>]
AllowList(l) == [isbool |-> FALSE, val |-> FALSE, list |-> l]
RepeatPolicies(roster) ==
  {AllowBool(TRUE), AllowBool(FALSE), AllowList(IF roster = <<>> THEN <<>> ELSE <<roster[1]>>)}

Msg(role, name, content, fc, term) ==
  [role |-> role, name |-> name, content |-> content, function_call |-> fc, term |-> term]
SelMsgs == {Msg("user", "Admin", "text", Absent, FALSE),
            Msg("assistant", "Coder", "text", "f", FALSE),
            Msg("function", Absent, "text", "f", FALSE)}
SeqsUpTo(S, n) == UNION {[1..k -> S] : k \in 0..n}
SelLedgers == SeqsUpTo(SelMsgs, MaxMessages)

(***************************************************************************)
(* External collaborators of the selector: the operator's console, the     *)
(* random source and the reasoning backend.                                *)
(***************************************************************************)
OpInputs == {"", "q", "x", "0", "1", "2", "4"}
Reprompting == {"x", "0", "4"}   \* inputs that can lead to another prompt
\* what the operator would type at the first, second and third prompt
OperatorSessions ==
  {s \in [1..3 -> OpInputs] :
     /\ (s[1] \notin Reprompting => s[2] = "")
     /\ (s[2] \notin Reprompting => s[3] = "")}
NoSession == <<"", "", "">>

Resp(final, form, who, what) == [final |-> final, form |-> form, who |-> who, what |-> what]
NoResp == Resp(FALSE, "unused", Absent, Absent)
\* generate_oai_reply: (False, None) without a client, else (True, text); the text
\* is not JSON ("garbage"), JSON that is no object ("number", "array"), or a JSON
\* object with or without its "who" and "what" members
Responses ==
  {Resp(FALSE, "none", Absent, Absent), Resp(TRUE, "garbage", Absent, Absent),
   Resp(TRUE, "number", Absent, Absent), Resp(TRUE, "array", Absent, Absent)}
  \cup {Resp(TRUE, "object", who, what) :
          who \in {Absent, "Nobody", "Admin", "Coder", "Reviewer"},
          what \in {Absent, "directive"}}

SelInput(ops, resp, rnd) == [ops |-> ops, resp |-> resp, rnd |-> rnd]
NoInput == SelInput(NoSession, NoResp, 0)

\* str.lower on the spellings in use
lower(s) ==
  CASE s = "ROUND_ROBIN" -> "round_robin"
    [] OTHER -> s

_VALID_SPEAKER_SELECTION_METHODS == {"auto", "manual", "random", "round_robin"}

\* the inputs a call can read under the configured policy
SelInputs ==
  CASE lower(speaker_selection_method) = "manual" ->
         {SelInput(o, r, 0) : o \in OperatorSessions, r \in Responses}
    [] lower(speaker_selection_method) = "random" ->
         {SelInput(NoSession, NoResp, r) : r \in 1..3}
    [] lower(speaker_selection_method) = "round_robin" -> {NoInput}
    [] OTHER -> {SelInput(NoSession, r, 0) : r \in Responses}

(***************************************************************************)
(* GroupChat2                                                              *)
(***************************************************************************)
agent_names == agents

\* ConversableAgent.can_execute_function
can_execute_function(agent, name) == name \in function_map[agent]

\* agent_by_name: raises ValueError (list.index) when the name is not on the roster
agent_by_name_raises(name) == ~InSeq(agent_names, name)
agent_by_name(name) == agents[IndexOf(agent_names, name) + 1]

\* off by one on the full roster: the current participant is returned again
next_agent_repeats(agent, pool) ==
  IF pool = agents
  THEN LET offset == IF InSeq(agent_names, agent) THEN IndexOf(agent_names, agent) ELSE 0
       IN  pool[(offset % Len(pool)) + 1]
  ELSE LET n == Len(agents)
           offset == IF InSeq(agent_names, agent) THEN IndexOf(agent_names, agent) + 1 ELSE 0
           hits == {k \in 0..(n - 1) : InSeq(pool, agents[((offset + k) % n) + 1])}
       IN  IF hits = {} THEN None
           ELSE agents[((offset + (CHOOSE k \in hits : \A j \in hits : k <= j)) % n) + 1]

next_agent(agent, pool) ==
  IF pool = agents
  THEN LET offset == IF InSeq(agent_names, agent) THEN IndexOf(agent_names, agent) ELSE 0
       IN  pool[((offset + 1) % Len(pool)) + 1]
  ELSE LET n == Len(agents)
           offset == IF InSeq(agent_names, agent) THEN IndexOf(agent_names, agent) + 1 ELSE 0
           hits == {k \in 0..(n - 1) : InSeq(pool, agents[((offset + k) % n) + 1])}
       IN  IF hits = {} THEN None   \* the loop ends without a return
           ELSE agents[((offset + (CHOOSE k \in hits : \A j \in hits : k <= j)) % n) + 1]

\* int(): the console inputs that parse as integers, and their values
IsInt(s) == s \in {"0", "1", "2", "4"}
IntOf(s) == CASE s = "0" -> 0 [] s = "1" -> 1 [] s = "2" -> 2 [] s = "4" -> 4

RECURSIVE manual_loop(_, _, _, _)
manual_loop(pool, ops, try_count, prompts) ==
  IF ~(try_count <= 3) THEN [agent |-> None, prompts |-> prompts]
  ELSE LET tc == try_count + 1 IN
       IF tc >= 3 THEN [agent |-> None, prompts |-> prompts]
       ELSE LET inp == ops[prompts + 1] IN
            IF inp = "" \/ inp = "q" THEN [agent |-> None, prompts |-> prompts + 1]
            ELSE IF ~IsInt(inp) THEN manual_loop(pool, ops, tc, prompts + 1)
            ELSE IF IntOf(inp) > 0 /\ IntOf(inp) <= Len(pool)
                 THEN [agent |-> pool[IntOf(inp)], prompts |-> prompts + 1]
                 ELSE manual_loop(pool, ops, tc, prompts + 1)

\* manual_select_speaker: the chosen participant (or None) and the prompts shown
manual_select_speaker(pool, ops) == manual_loop(pool, ops, 0, 0)

\* json.loads: JSONDecodeError on text that is not JSON, else the parsed value
json_loads_raises(resp) == resp.form = "garbage"
json_loads(resp) == [type |-> resp.form, who |-> resp.who, what |-> resp.what]

Returned(agent, directive, pool, prompts, used) ==
  [kind |-> "return", speaker |-> agent, directive |-> directive, error |-> None,
   pool |-> pool, prompts |-> prompts, consulted |-> used]
Raised(exception, pool, prompts, used) ==
  [kind |-> "raise", speaker |-> None, directive |-> None, error |-> exception,
   pool |-> pool, prompts |-> prompts, consulted |-> used]

\* the roster lookup is not guarded: an unknown name raises, a known one loses its directive
auto_select_unguarded(last, pool, inp, prompts, used) ==
  LET u == used \cup {"backend"}
      fallback == Returned(next_agent(last, pool), None, pool, prompts, u)
      parsed == json_loads(inp.resp)
  IN  IF ~inp.resp.final THEN fallback
      ELSE IF json_loads_raises(inp.resp) THEN fallback
      ELSE IF parsed.type # "object" THEN Raised("TypeError", pool, prompts, u)
      ELSE IF parsed.who = Absent THEN Raised("KeyError", pool, prompts, u)
      ELSE IF agent_by_name_raises(parsed.who) THEN Raised("ValueError", pool, prompts, u)
      ELSE IF parsed.what = Absent THEN Raised("KeyError", pool, prompts, u)
      ELSE Returned(agent_by_name(parsed.who), None, pool, prompts, u)

\* lines 231-258: the automatic selection, also the fall-through of the manual policy
auto_select(last, pool, inp, prompts, used) ==
  LET u == used \cup {"backend"}
      fallback == Returned(next_agent(last, pool), None, pool, prompts, u)
      parsed == json_loads(inp.resp)
  IN  IF ~inp.resp.final THEN fallback
      ELSE IF json_loads_raises(inp.resp) THEN fallback
      ELSE IF parsed.type # "object" THEN Raised("TypeError", pool, prompts, u)
      ELSE IF parsed.who = Absent THEN Raised("KeyError", pool, prompts, u)
      ELSE IF agent_by_name_raises(parsed.who) THEN fallback
      ELSE IF parsed.what = Absent THEN Raised("KeyError", pool, prompts, u)
      ELSE Returned(agent_by_name(parsed.who), parsed.what, pool, prompts, u)

\* lines 219-229: repeat filtering and policy dispatch over the routed pool
dispatch(last, routed, allow, inp) ==
  LET method == lower(speaker_selection_method)
      pool == IF allow THEN routed ELSE SelectSeq(routed, LAMBDA a : a # last)
      manual == manual_select_speaker(pool, inp.ops)
  IN  CASE method = "manual" ->
             IF manual.agent # None
             THEN Returned(manual.agent, None, pool, manual.prompts, {"operator"})
             ELSE auto_select(last, pool, inp, manual.prompts, {"operator"})
        [] method = "round_robin" -> Returned(next_agent(last, pool), None, pool, 0, {})
        [] method = "random" ->
             IF pool = <<>> THEN Raised("IndexError", pool, 0, {"random"})
             ELSE Returned(pool[((inp.rnd - 1) % Len(pool)) + 1], None, pool, 0, {"random"})
        [] OTHER -> auto_select(last, pool, inp, 0, {})

\* the single capable participant is not returned at once but goes through the policy
route_without_shortcut(ledger, last, allow, inp) ==
  LET fname == ledger[Len(ledger)].function_call
      capable == SelectSeq(agents, LAMBDA a : can_execute_function(a, fname))
      withmap == SelectSeq(agents, LAMBDA a : function_map[a] # {})
  IN  IF capable = <<>>
      THEN IF withmap = <<>> THEN Raised("ValueError", withmap, 0, {})
           ELSE dispatch(last, withmap, allow, inp)
      ELSE dispatch(last, capable, allow, inp)

\* lines 200-217: function-call routing
route(ledger, last, allow, inp) ==
  LET fname == ledger[Len(ledger)].function_call
      capable == SelectSeq(agents, LAMBDA a : can_execute_function(a, fname))
      withmap == SelectSeq(agents, LAMBDA a : function_map[a] # {})
  IN  IF Len(capable) = 1 THEN Returned(capable[1], None, capable, 0, {})
      ELSE IF capable = <<>>
      THEN IF Len(withmap) = 1 THEN Returned(withmap[1], None, withmap, 0, {})
           ELSE IF withmap = <<>>
           THEN \* the message of the ValueError reads messages[-1]['name']
                IF ledger[Len(ledger)].name = Absent
                THEN Raised("KeyError", withmap, 0, {})
                ELSE Raised("ValueError", withmap, 0, {})
           ELSE dispatch(last, withmap, allow, inp)
      ELSE dispatch(last, capable, allow, inp)

\* the selection policy is not validated
select_speaker_any_method(ledger, last, inp) ==
  LET allow == IF allow_repeat_speaker.isbool THEN allow_repeat_speaker.val
               ELSE InSeq(allow_repeat_speaker.list, last)
  IN  IF Len(agents) < 2 THEN Raised("ValueError", agents, 0, {})
      ELSE IF func_call_filter /\ ledger # <<>>
              /\ ledger[Len(ledger)].function_call # Absent
           THEN route(ledger, last, allow, inp)
           ELSE dispatch(last, agents, allow, inp)

\* select_speaker of the GroupChat2 whose messages are ledger
select_speaker(ledger, last, inp) ==
  IF lower(speaker_selection_method) \notin _VALID_SPEAKER_SELECTION_METHODS
  THEN Raised("ValueError", agents, 0, {})
  ELSE LET allow == IF allow_repeat_speaker.isbool THEN allow_repeat_speaker.val
                    ELSE InSeq(allow_repeat_speaker.list, last)
       IN  IF Len(agents) < 2 THEN Raised("ValueError", agents, 0, {})
           ELSE IF func_call_filter /\ ledger # <<>>
                   /\ ledger[Len(ledger)].function_call # Absent
                THEN route(ledger, last, allow, inp)
                ELSE dispatch(last, agents, allow, inp)

\* the part of the inputs the call read
Consumed(inp, out) ==
  SelInput([k \in 1..3 |-> IF k <= out.prompts THEN inp.ops[k] ELSE ""],
           IF "backend" \in out.consulted THEN inp.resp ELSE NoResp,
           IF "random" \in out.consulted THEN inp.rnd ELSE 0)

NoSel == [called |-> FALSE, last |-> None, inp |-> NoInput,
          out |-> Raised(None, <<>>, 0, {})]
NextCall(called, current, pool, returned) ==
  [called |-> called, current |-> current, pool |-> pool, result |-> returned]
NoNextCall == NextCall(FALSE, None, <<>>, None)

(***************************************************************************)
(* Stand-alone calls of select_speaker on a ledger in any state.           *)
(***************************************************************************)
InitGroupChat(rosters, methods, ledgers) ==
  /\ agents \in rosters
  /\ function_map \in FunctionTables(agents)
  /\ messages \in ledgers
  /\ max_round = 10
  /\ admin_name = "Admin"
  /\ func_call_filter \in BOOLEAN
  /\ speaker_selection_method \in methods
  /\ allow_repeat_speaker \in RepeatPolicies(agents)

GroupChatState ==
  [agents |-> agents, messages |-> messages, max_round |-> max_round,
   admin_name |-> admin_name, func_call_filter |-> func_call_filter,
   speaker_selection_method |-> speaker_selection_method,
   allow_repeat_speaker |-> allow_repeat_speaker]

(***************************************************************************)
(* persistence/store.py: SerializableRegistry                              *)
(***************************************************************************)
\* the classes handed to register; Plain does not implement Serializable
Classes == {"Task", "Note", "Plain"}
issubclass_Serializable(c) == c # "Plain"
\* line 17: the name a class is registered under when none is given
default_type_name(c) ==
  CASE c = "Task" -> "models.Task" [] c = "Note" -> "models.Note" [] OTHER -> "models.Plain"
TypeNames == {"task", "note"} \cup {default_type_name(c) : c \in Classes}
\* line 5: the package version
version == "0.2"

\* the instances of a class, and the model its own to_model gives for one
Values == {"a", "b"}
Obj(c, v) == [cls |-> c, value |-> v]
Objects == {Obj(c, v) : c \in Classes \ {"Plain"}, v \in Values}
Payload(c, v) == [kind |-> "payload", model_of |-> c, value |-> v]
original_to_model(x) == Payload(x.cls, x.value)
\* lines 33-37: the envelope class built by register
Wrapper(type_name, ver, data) ==
  [kind |-> "wrapper", type |-> type_name, version |-> ver, data |-> data]
\* lines 39-44: to_model as register leaves it, one envelope per wrapping
RECURSIVE wrap(_, _)
wrap(layers, m) ==
  IF layers = <<>> THEN m
  ELSE Wrapper(layers[Len(layers)], version, wrap(SubSeq(layers, 1, Len(layers) - 1), m))
to_model(x) == wrap(cls_to_model[x.cls], original_to_model(x))
\* the class's own from_model: it reads the fields of the class's model, which
\* an envelope does not have
NoObject == Obj(None, None)
NoModel == [kind |-> "none"]
StoreReturned(x) == [kind |-> "return", value |-> x, error |-> None]
StoreRaised(exception) == [kind |-> "raise", value |-> NoObject, error |-> exception]
original_from_model(c, m) ==
  IF m.kind = "payload" /\ m.model_of = c
  THEN StoreReturned(Obj(c, m.value))
  ELSE StoreRaised("AttributeError")

\* a call on the registry: register(type_name)(class), or from_model(model)
\* with the model the class's from_model was handed
StoreCall(op, c, type_name, model, handed, out) ==
  [op |-> op, cls |-> c, type_name |-> type_name, model |-> model,
   handed |-> handed, out |-> out]
NoStoreCall == StoreCall(None, None, None, NoModel, NoModel, StoreReturned(NoObject))
\* a process that has registered nothing
StoreIdle ==
  /\ _registry = [n \in TypeNames |-> Absent]
  /\ cls_to_model = [c \in Classes |-> <<>>]
  /\ store_call = NoStoreCall

\* the pending message of a manager that has not been handed one
NoMessage == Msg(None, None, None, Absent, FALSE)

\* no conversation is running
RunIdle ==
  /\ built = [GroupChatState EXCEPT !.messages = <<>>]
  /\ resets = 0
  /\ pc = "idle" /\ i = 0 /\ message = NoMessage /\ speaker = None
  /\ selected = <<>> /\ log = <<>> /\ result = None /\ error = None /\ exit = None
  /\ a_messages = <<>>
  /\ a_pc = "idle" /\ a_i = 0 /\ a_message = NoMessage /\ a_speaker = None
  /\ a_selected = <<>> /\ a_log = <<>> /\ a_result = None /\ a_error = None
  /\ a_exit = None

InitSel ==
  /\ InitGroupChat(Rosters, Methods, SelLedgers)
  /\ last_speaker \in Range(agents) \cup {Outsider}
  /\ sel = NoSel
  /\ rr_trace = <<>>
  /\ next_call = NoNextCall
  /\ RunIdle
  /\ StoreIdle

SelectSpeaker ==
  /\ ~sel.called
  /\ \E inp \in SelInputs :
       LET out == select_speaker(messages, last_speaker, inp) IN
       /\ sel' = [called |-> TRUE, last |-> last_speaker, inp |-> Consumed(inp, out), out |-> out]
       /\ UNCHANGED <<gcVars, last_speaker, rr_trace, next_call, runVars, storeVars>>

\* a caller that feeds each returned speaker back as the next last_speaker
SelectNext ==
  /\ Len(rr_trace) < MaxSelections
  /\ sel.out.kind = "return" \/ ~sel.called
  /\ \E inp \in SelInputs :
       LET out == select_speaker(messages, last_speaker, inp) IN
       /\ sel' = [called |-> TRUE, last |-> last_speaker, inp |-> Consumed(inp, out), out |-> out]
       /\ rr_trace' = IF out.kind = "return" THEN Append(rr_trace, out.speaker) ELSE rr_trace
       /\ last_speaker' = IF out.kind = "return" THEN out.speaker ELSE last_speaker
       /\ UNCHANGED <<gcVars, next_call, runVars, storeVars>>

vars == <<gcVars, selVars, runVars, storeVars>>

NextSel == SelectSpeaker
SpecSel == InitSel /\ [][NextSel]_vars

InitRR ==
  /\ agents \in Rosters
  /\ function_map \in FunctionTables(agents)
  /\ messages \in SelLedgers
  /\ max_round = 10
  /\ admin_name = "Admin"
  /\ func_call_filter \in BOOLEAN
  /\ speaker_selection_method \in {"round_robin", "ROUND_ROBIN"}
  /\ allow_repeat_speaker \in RepeatPolicies(agents) \cup {AllowList(agents)}
  /\ last_speaker \in Range(agents) \cup {Outsider}
  /\ sel = NoSel
  /\ rr_trace = <<>>
  /\ next_call = NoNextCall
  /\ RunIdle
  /\ StoreIdle

\* configurations the selector's validation rejects
InitCfg ==
  /\ \/ InitGroupChat(SmallRosters, Methods \cup UnknownMethods, SelLedgers)
     \/ InitGroupChat(Rosters, UnknownMethods, SelLedgers)
  /\ last_speaker \in Range(agents) \cup {Outsider}
  /\ sel = NoSel
  /\ rr_trace = <<>>
  /\ next_call = NoNextCall
  /\ RunIdle
  /\ StoreIdle

SpecCfg == InitCfg /\ [][NextSel]_vars

NextRR == SelectNext
SpecRR == InitRR /\ [][NextRR]_vars

(***************************************************************************)
(* Stand-alone calls of next_agent: any roster, any current participant    *)
(* and any non-empty pool drawn from the roster in roster order.           *)
(***************************************************************************)
NextRosters == Rosters \cup {<<"Admin", "Coder", "Reviewer", "Tester">>}
Pools(roster) ==
  {SelectSeq(roster, LAMBDA a : a \in S) : S \in (SUBSET Range(roster)) \ {{}}}

InitNext ==
  /\ agents \in NextRosters
  /\ function_map = [a \in Range(agents) \cup {Outsider} |-> {}]
  /\ messages = <<>>
  /\ max_round = 10
  /\ admin_name = "Admin"
  /\ func_call_filter = TRUE
  /\ speaker_selection_method = "round_robin"
  /\ allow_repeat_speaker = AllowBool(TRUE)
  /\ last_speaker = None /\ sel = NoSel /\ rr_trace = <<>>
  /\ \E current \in Range(agents) \cup {Outsider}, pool \in Pools(agents) :
       next_call = NextCall(FALSE, current, pool, None)
  /\ RunIdle
  /\ StoreIdle

NextAgent ==
  /\ ~next_call.called
  /\ next_call' = NextCall(TRUE, next_call.current, next_call.pool,
                           next_agent(next_call.current, next_call.pool))
  /\ UNCHANGED <<gcVars, last_speaker, sel, rr_trace, runVars, storeVars>>

NextNext == NextAgent
SpecNext == InitNext /\ [][NextNext]_vars

(***************************************************************************)
(* GroupChatManager2: run_chat and a_run_chat.                             *)
(*                                                                         *)
(* The two handlers are registered on GroupChat2 values of the same        *)
(* configuration and are driven side by side: both conversations are       *)
(* started by the same sender with the same message, and at each step the  *)
(* collaborators (backend, operator, random source, the speakers' reply    *)
(* generation) give both the same answers.                                 *)
(***************************************************************************)
MaxRound == 2    \* largest max_round of the explored configurations
MaxResets == 1   \* reset() calls explored in one behaviour

Manager == "chat_manager"   \* GroupChatManager2.name

\* code_utils.content_str: a multi-part content is flattened to text, None is ""
content_str(c) ==
  CASE c = "parts" -> "text"
    [] c = None -> ""
    [] OTHER -> c

\* the messages a participant can hand to the manager
MsgKinds == {"plain", "parts", "fcall", "function", "term"}
MsgOf(kind) ==
  CASE kind = "plain" -> Msg("user", Absent, "text", Absent, FALSE)
    [] kind = "parts" -> Msg("user", Absent, "parts", Absent, FALSE)
    [] kind = "fcall" -> Msg("assistant", Absent, None, "f", FALSE)
    [] kind = "function" -> Msg("function", "f", "text", Absent, FALSE)
    [] kind = "term" -> Msg("user", Absent, "text", Absent, TRUE)

\* the termination predicate supplied by the caller
_is_termination_msg(m) == m.term

\* generate_reply: a message, None, or a KeyboardInterrupt
ReplyKinds == {"plain", "fcall", "function", "term"}
Replies == {None, "interrupt"} \cup ReplyKinds
ReplyInput(first, admin) == [first |-> first, admin |-> admin]
ReplyInputs ==
  {ReplyInput(r, None) : r \in Replies \ {"interrupt"}}
    \cup {ReplyInput("interrupt", r) : r \in Replies}

\* the backend answers and operator sessions of the explored conversations
RunResponses ==
  {Resp(FALSE, "none", Absent, Absent), Resp(TRUE, "garbage", Absent, Absent),
   Resp(TRUE, "array", Absent, Absent), Resp(TRUE, "object", "Nobody", "directive"),
   Resp(TRUE, "object", "Coder", "directive"), Resp(TRUE, "object", "Admin", Absent)}
RunSessions == {<<"2", "", "">>, <<"x", "1", "">>, <<"q", "", "">>, <<"0", "4", "">>}
RunSelInputs ==
  CASE lower(speaker_selection_method) = "manual" ->
         {SelInput(o, r, 0) : o \in RunSessions, r \in RunResponses}
    [] lower(speaker_selection_method) = "random" ->
         {SelInput(NoSession, NoResp, r) : r \in 1..3}
    [] lower(speaker_selection_method) = "round_robin" -> {NoInput}
    [] OTHER -> {SelInput(NoSession, r, 0) : r \in RunResponses}

Ev(op, from, to, what, silent) ==
  [op |-> op, from |-> from, to |-> to, what |-> what, silent |-> silent,
   request_reply |-> FALSE]
Call(op, who) ==
  [op |-> op, from |-> None, to |-> who, what |-> None, silent |-> FALSE,
   request_reply |-> FALSE]

\* GroupChat2.append: the content is cast to str, then the message is appended
append(ledger, m) == Append(ledger, [m EXCEPT !.content = content_str(@)])

\* GroupChat2.reset
reset_keeps_history ==
  /\ a_messages' = <<>>
  /\ UNCHANGED gcVars

reset ==
  /\ messages' = <<>>
  /\ a_messages' = <<>>
  /\ UNCHANGED <<agents, max_round, admin_name, func_call_filter,
                 speaker_selection_method, allow_repeat_speaker, function_map>>

\* lines 337-342: the introduction goes to every roster member, the first one loudly
IntroSends == [k \in 1..Len(agents) |-> Ev("send", Manager, agents[k], "intro", k # 1)]

\* the message goes to every roster member, the speaker included
BroadcastToAll(op, spk) ==
  [k \in 1..Len(agents) |-> Ev(op, Manager, agents[k], "message", TRUE)]

\* lines 354-357: the message goes to every roster member but the speaker
Broadcast(op, spk) ==
  LET rcpts == SelectSeq(agents, LAMBDA a : a # spk)
  IN  [k \in 1..Len(rcpts) |-> Ev(op, Manager, rcpts[k], "message", TRUE)]

\* lines 367-372: the directive goes to every roster member, loudly to the speaker
DirectiveSends(spk) ==
  [k \in 1..Len(agents) |-> Ev("send", Manager, agents[k], "directive", agents[k] # spk)]

DirectiveMsg(text) == Msg("assistant", Manager, text, Absent, FALSE)

\* the pending message is appended as it came
StampNothing(m, spk) == m

\* lines 345-347: the name is set to the speaker's unless the role is function
Stamp(m, spk) == IF m.role # "function" THEN [m EXCEPT !.name = spk] ELSE m

\* run_chat, lines 331-343
run_chat_start(sender, m) ==
  /\ message' = m
  /\ speaker' = sender
  /\ log' = IntroSends
  /\ selected' = <<>>
  /\ i' = 0
  /\ result' = IF max_round = 0 THEN "(True, None)" ELSE None
  /\ exit' = IF max_round = 0 THEN "exhausted" ELSE None
  /\ error' = None
  /\ pc' = IF max_round = 0 THEN "done" ELSE "round"

\* run_chat, lines 344-360: one pass from the top of the loop to the selection
run_chat_round_never_last ==
  LET m == Stamp(message, speaker)
      ledger == append(messages, m)
  IN  /\ messages' = ledger
      /\ message' = ledger[Len(ledger)]
      /\ IF _is_termination_msg(m)
         THEN /\ pc' = "done" /\ result' = "(True, None)" /\ exit' = "terminated"
              /\ log' = Append(log, Call("append", "message"))
         ELSE /\ log' = Append(log, Call("append", "message")) \o Broadcast("send", speaker)
              /\ pc' = "select"
              /\ UNCHANGED <<result, exit>>
      /\ UNCHANGED <<i, speaker, selected, error>>

\* the broadcast comes before the termination check
run_chat_round_broadcasts_first ==
  LET m == Stamp(message, speaker)
      ledger == append(messages, m)
  IN  /\ messages' = ledger
      /\ message' = ledger[Len(ledger)]
      /\ log' = Append(log, Call("append", "message")) \o Broadcast("send", speaker)
      /\ IF _is_termination_msg(m)
         THEN pc' = "done" /\ result' = "(True, None)" /\ exit' = "terminated"
         ELSE IF i = max_round - 1
              THEN pc' = "done" /\ result' = "(True, None)" /\ exit' = "last_round"
              ELSE pc' = "select" /\ UNCHANGED <<result, exit>>
      /\ UNCHANGED <<i, speaker, selected, error>>

run_chat_round ==
  LET m == Stamp(message, speaker)
      ledger == append(messages, m)
  IN  /\ messages' = ledger
      /\ message' = ledger[Len(ledger)]
      /\ IF _is_termination_msg(m)
         THEN /\ pc' = "done" /\ result' = "(True, None)" /\ exit' = "terminated"
              /\ log' = Append(log, Call("append", "message"))
         ELSE /\ log' = Append(log, Call("append", "message")) \o Broadcast("send", speaker)
              /\ IF i = max_round - 1
                 THEN pc' = "done" /\ result' = "(True, None)" /\ exit' = "last_round"
                 ELSE pc' = "select" /\ UNCHANGED <<result, exit>>
      /\ UNCHANGED <<i, speaker, selected, error>>

\* the directive is appended first, with its role left as user, and sent afterwards
run_chat_select_appends_first(inp) ==
  LET out == select_speaker(messages, speaker, inp) IN
  IF out.kind = "raise"
  THEN /\ pc' = "raised" /\ error' = out.error /\ exit' = "raised"
       /\ log' = Append(log, Call("select_speaker", speaker))
       /\ UNCHANGED <<messages, i, message, speaker, selected, result>>
  ELSE /\ speaker' = out.speaker
       /\ selected' = Append(selected, out.speaker)
       /\ IF out.directive # None
          THEN /\ log' = Append(log, Call("select_speaker", speaker))
                           \o <<Call("append", "directive")>>
                           \o DirectiveSends(out.speaker)
               /\ messages' = append(messages, Msg("user", Manager, out.directive, Absent, FALSE))
          ELSE /\ log' = Append(log, Call("select_speaker", speaker))
               /\ UNCHANGED messages
       /\ pc' = "reply"
       /\ UNCHANGED <<i, message, result, error, exit>>

\* run_chat, lines 362-377: the selection and the directive
run_chat_select(inp) ==
  LET out == select_speaker(messages, speaker, inp) IN
  IF out.kind = "raise"
  THEN /\ pc' = "raised" /\ error' = out.error /\ exit' = "raised"
       /\ log' = Append(log, Call("select_speaker", speaker))
       /\ UNCHANGED <<messages, i, message, speaker, selected, result>>
  ELSE /\ speaker' = out.speaker
       /\ selected' = Append(selected, out.speaker)
       /\ IF out.directive # None
          THEN /\ log' = Append(log, Call("select_speaker", speaker))
                           \o DirectiveSends(out.speaker)
                           \o <<Call("append", "directive")>>
               /\ messages' = append(messages, DirectiveMsg(out.directive))
          ELSE /\ log' = Append(log, Call("select_speaker", speaker))
               /\ UNCHANGED messages
       /\ pc' = "reply"
       /\ UNCHANGED <<i, message, result, error, exit>>

\* the admin replies after an interrupt, but the interrupted speaker stays the speaker
run_chat_reply_keeps_speaker(rep) ==
  LET interrupted == rep.first = "interrupt"
      has_admin == InSeq(agent_names, admin_name)
      spk == IF interrupted /\ has_admin THEN agent_by_name(admin_name) ELSE speaker
      reply == IF interrupted THEN rep.admin ELSE rep.first
      calls == IF interrupted /\ has_admin
               THEN <<Call("generate_reply", speaker), Call("KeyboardInterrupt", speaker),
                      Call("generate_reply", spk)>>
               ELSE <<Call("generate_reply", speaker)>>
  IN  IF interrupted /\ (~has_admin \/ rep.admin = "interrupt")
      THEN /\ pc' = "raised" /\ error' = "KeyboardInterrupt" /\ exit' = "raised"
           /\ log' = log \o calls \o <<Call("KeyboardInterrupt", spk)>>
           /\ UNCHANGED <<messages, i, message, speaker, selected, result>>
      ELSE /\ IF reply = None
              THEN /\ pc' = "done" /\ result' = "(True, None)" /\ exit' = "no_reply"
                   /\ log' = log \o calls
                   /\ UNCHANGED <<i, message>>
              ELSE /\ log' = log \o calls \o <<Ev("send", speaker, Manager, "reply", FALSE)>>
                   /\ message' = MsgOf(reply)
                   /\ i' = i + 1
                   /\ IF i + 1 < max_round
                      THEN pc' = "round" /\ UNCHANGED <<result, exit>>
                      ELSE pc' = "done" /\ result' = "(True, None)" /\ exit' = "exhausted"
           /\ UNCHANGED <<messages, speaker, selected, error>>

\* the loop counter does not advance after a reply
run_chat_reply_same_round(rep) ==
  LET interrupted == rep.first = "interrupt"
      has_admin == InSeq(agent_names, admin_name)
      spk == IF interrupted /\ has_admin THEN agent_by_name(admin_name) ELSE speaker
      reply == IF interrupted THEN rep.admin ELSE rep.first
      calls == IF interrupted /\ has_admin
               THEN <<Call("generate_reply", speaker), Call("KeyboardInterrupt", speaker),
                      Call("generate_reply", spk)>>
               ELSE <<Call("generate_reply", speaker)>>
  IN  IF interrupted /\ (~has_admin \/ rep.admin = "interrupt")
      THEN /\ pc' = "raised" /\ error' = "KeyboardInterrupt" /\ exit' = "raised"
           /\ speaker' = spk
           /\ log' = log \o calls \o <<Call("KeyboardInterrupt", spk)>>
           /\ UNCHANGED <<messages, i, message, selected, result>>
      ELSE /\ speaker' = spk
           /\ IF reply = None
              THEN /\ pc' = "done" /\ result' = "(True, None)" /\ exit' = "no_reply"
                   /\ log' = log \o calls
                   /\ UNCHANGED <<i, message>>
              ELSE /\ log' = log \o calls \o <<Ev("send", spk, Manager, "reply", FALSE)>>
                   /\ message' = MsgOf(reply)
                   /\ pc' = "round"
                   /\ UNCHANGED <<i, result, exit>>
           /\ UNCHANGED <<messages, selected, error>>

\* run_chat, lines 378-394: the speaker's reply, the interrupt and the hand-over
run_chat_reply(rep) ==
  LET interrupted == rep.first = "interrupt"
      has_admin == InSeq(agent_names, admin_name)
      spk == IF interrupted /\ has_admin THEN agent_by_name(admin_name) ELSE speaker
      reply == IF interrupted THEN rep.admin ELSE rep.first
      calls == IF interrupted /\ has_admin
               THEN <<Call("generate_reply", speaker), Call("KeyboardInterrupt", speaker),
                      Call("generate_reply", spk)>>
               ELSE <<Call("generate_reply", speaker)>>
  IN  IF interrupted /\ (~has_admin \/ rep.admin = "interrupt")
      THEN /\ pc' = "raised" /\ error' = "KeyboardInterrupt" /\ exit' = "raised"
           /\ speaker' = spk
           /\ log' = log \o calls \o <<Call("KeyboardInterrupt", spk)>>
           /\ UNCHANGED <<messages, i, message, selected, result>>
      ELSE /\ speaker' = spk
           /\ IF reply = None
              THEN /\ pc' = "done" /\ result' = "(True, None)" /\ exit' = "no_reply"
                   /\ log' = log \o calls
                   /\ UNCHANGED <<i, message>>
              ELSE /\ log' = log \o calls \o <<Ev("send", spk, Manager, "reply", FALSE)>>
                   /\ message' = MsgOf(reply)
                   /\ i' = i + 1
                   /\ IF i + 1 < max_round   \* for i in range(max_round)
                      THEN pc' = "round" /\ UNCHANGED <<result, exit>>
                      ELSE pc' = "done" /\ result' = "(True, None)" /\ exit' = "exhausted"
           /\ UNCHANGED <<messages, selected, error>>

\* a_run_chat, lines 404-408
a_run_chat_start(sender, m) ==
  /\ a_message' = m
  /\ a_speaker' = sender
  /\ a_log' = <<>>
  /\ a_selected' = <<>>
  /\ a_i' = 0
  /\ a_result' = IF max_round = 0 THEN "(True, None)" ELSE None
  /\ a_exit' = IF max_round = 0 THEN "exhausted" ELSE None
  /\ a_error' = None
  /\ a_pc' = IF max_round = 0 THEN "done" ELSE "round"

\* a_run_chat, lines 409-426
a_run_chat_round ==
  LET m == Stamp(a_message, a_speaker)
      ledger == append(a_messages, m)
  IN  /\ a_messages' = ledger
      /\ a_message' = ledger[Len(ledger)]
      /\ IF _is_termination_msg(m)
         THEN /\ a_pc' = "done" /\ a_result' = "(True, None)" /\ a_exit' = "terminated"
              /\ a_log' = Append(a_log, Call("append", "message"))
         ELSE /\ a_log' = Append(a_log, Call("append", "message"))
                            \o Broadcast("a_send", a_speaker)
              /\ IF a_i = max_round - 1
                 THEN a_pc' = "done" /\ a_result' = "(True, None)" /\ a_exit' = "last_round"
                 ELSE a_pc' = "select" /\ UNCHANGED <<a_result, a_exit>>
      /\ UNCHANGED <<a_i, a_speaker, a_selected, a_error>>

\* a_run_chat, lines 427-429: speaker is bound to the whole (participant, directive) pair
a_run_chat_select(inp) ==
  LET out == select_speaker(a_messages, a_speaker, inp) IN
  IF out.kind = "raise"
  THEN /\ a_pc' = "raised" /\ a_error' = out.error /\ a_exit' = "raised"
       /\ a_log' = Append(a_log, Call("select_speaker", a_speaker))
       /\ UNCHANGED <<a_messages, a_i, a_message, a_speaker, a_selected, a_result>>
  ELSE /\ a_speaker' = <<out.speaker, out.directive>>
       /\ a_selected' = Append(a_selected, out.speaker)
       /\ a_log' = Append(a_log, Call("select_speaker", a_speaker))
       /\ a_pc' = "reply"
       /\ UNCHANGED <<a_messages, a_i, a_message, a_result, a_error, a_exit>>

\* a_run_chat, lines 430-445: a tuple has no a_generate_reply, and the handler
\* catches KeyboardInterrupt only
a_run_chat_reply(rep) ==
  /\ a_pc' = "raised" /\ a_error' = "AttributeError" /\ a_exit' = "raised"
  /\ UNCHANGED <<a_messages, a_i, a_message, a_speaker, a_selected, a_log, a_result>>

Running(p) == p \in {"round", "select", "reply"}
Ended(p) == p \in {"done", "raised"}

\* the configurations of the explored conversations
RunRoster == <<"Admin", "Coder", "Reviewer">>
RunTable == [a \in Range(RunRoster) \cup {Outsider} |-> IF a = "Coder" THEN {"f"} ELSE {}]
NoTable == [a \in Range(RunRoster) \cup {Outsider} |-> {}]
InitRunConfig ==
  \/ /\ agents = RunRoster
     /\ function_map = RunTable
     /\ max_round \in 1..MaxRound
     /\ admin_name \in {"Admin", "Boss"}
     /\ func_call_filter \in BOOLEAN
     /\ speaker_selection_method \in {"auto", "manual", "random", "round_robin"}
     /\ allow_repeat_speaker \in {AllowBool(TRUE), AllowBool(FALSE)}
  \/ \* the scenario of the specification: five rounds in round-robin order
     /\ agents = RunRoster
     /\ function_map = NoTable
     /\ max_round = 5
     /\ admin_name = "Admin"
     /\ func_call_filter = TRUE
     /\ speaker_selection_method = "round_robin"
     /\ allow_repeat_speaker = AllowBool(FALSE)

InitRun ==
  /\ InitRunConfig
  /\ messages = <<>>
  /\ last_speaker = None /\ sel = NoSel /\ rr_trace = <<>> /\ next_call = NoNextCall
  /\ RunIdle
  /\ StoreIdle

\* initiate_chat / a_initiate_chat: a sender hands the manager its message
StartRun ==
  /\ pc = "idle" /\ a_pc = "idle"
  /\ \E sender \in {agents[1], Outsider}, kind \in MsgKinds :
       /\ run_chat_start(sender, MsgOf(kind))
       /\ a_run_chat_start(sender, MsgOf(kind))
  /\ UNCHANGED <<gcVars, selVars, built, resets, a_messages, storeVars>>

Round ==
  /\ pc = "round" \/ a_pc = "round"
  /\ IF pc = "round" THEN run_chat_round ELSE UNCHANGED <<messages, syncVars>>
  /\ IF a_pc = "round" THEN a_run_chat_round ELSE UNCHANGED asyncVars
  /\ UNCHANGED <<agents, max_round, admin_name, func_call_filter,
                 speaker_selection_method, allow_repeat_speaker, function_map,
                 selVars, built, resets, storeVars>>

Select ==
  /\ ~(pc = "round" \/ a_pc = "round")
  /\ pc = "select" \/ a_pc = "select"
  /\ \E inp \in RunSelInputs :
       /\ IF pc = "select" THEN run_chat_select(inp) ELSE UNCHANGED <<messages, syncVars>>
       /\ IF a_pc = "select" THEN a_run_chat_select(inp) ELSE UNCHANGED asyncVars
  /\ UNCHANGED <<agents, max_round, admin_name, func_call_filter,
                 speaker_selection_method, allow_repeat_speaker, function_map,
                 selVars, built, resets, storeVars>>

Reply ==
  /\ ~(pc = "round" \/ a_pc = "round") /\ ~(pc = "select" \/ a_pc = "select")
  /\ pc = "reply" \/ a_pc = "reply"
  /\ \E rep \in ReplyInputs :
       /\ IF pc = "reply" THEN run_chat_reply(rep) ELSE UNCHANGED <<messages, syncVars>>
       /\ IF a_pc = "reply" THEN a_run_chat_reply(rep) ELSE UNCHANGED asyncVars
  /\ UNCHANGED <<agents, max_round, admin_name, func_call_filter,
                 speaker_selection_method, allow_repeat_speaker, function_map,
                 selVars, built, resets, storeVars>>

\* ConversableAgent.reset invokes reset_config (GroupChat2.reset) between conversations
Reset ==
  /\ Ended(pc) /\ Ended(a_pc)
  /\ resets < MaxResets
  /\ reset
  /\ resets' = resets + 1
  /\ pc' = "idle" /\ a_pc' = "idle"
  /\ UNCHANGED <<storeVars, selVars, built, i, message, speaker, selected, log, result, error, exit,
                 a_i, a_message, a_speaker, a_selected, a_log, a_result, a_error, a_exit>>

NextRun == StartRun \/ Round \/ Select \/ Reply \/ Reset
SpecRun == InitRun /\ [][NextRun]_vars

\* every external call of run_chat (the selection, the speaker's reply) returns
\* or raises, and the loop proceeds once it has
\* (each of these steps adds to log, so progress is read off pc, i and log)
progress == <<pc, i, log, a_pc, a_log>>
SpecRunFair ==
  SpecRun /\ WF_progress(Round) /\ WF_progress(Select) /\ WF_progress(Reply)

(***************************************************************************)
(* SerializableRegistry: register and from_model                           *)
(***************************************************************************)
registered_classes == {_registry[n] : n \in TypeNames} \ {Absent}
registered_names == {n \in TypeNames : _registry[n] # Absent}

\* SerializableRegistry.register, lines 14-57: _inner_register applied to a class
register(c, given) ==
  LET type_name == IF given = None THEN default_type_name(c) ELSE given IN
  IF ~issubclass_Serializable(c)
  THEN /\ store_call' = StoreCall("register", c, given, NoModel, NoModel, StoreRaised("ValueError"))
       /\ UNCHANGED <<_registry, cls_to_model>>
  ELSE IF c \in registered_classes
  THEN /\ store_call' = StoreCall("register", c, given, NoModel, NoModel, StoreRaised("ValueError"))
       /\ UNCHANGED <<_registry, cls_to_model>>
  ELSE IF type_name \in registered_names
  THEN /\ store_call' = StoreCall("register", c, given, NoModel, NoModel, StoreRaised("ValueError"))
       /\ UNCHANGED <<_registry, cls_to_model>>
  ELSE \* lines 30-48; the from_model of lines 50-55 follows the return and is never installed
       /\ cls_to_model' = [cls_to_model EXCEPT ![c] = Append(@, type_name)]
       /\ _registry' = [_registry EXCEPT ![type_name] = c]
       /\ store_call' = StoreCall("register", c, given, NoModel, NoModel, StoreReturned(NoObject))

\* SerializableRegistry.from_model, lines 59-64
from_model(model) ==
  IF model.kind # "wrapper"
  THEN \* model.type does not exist
       store_call' = StoreCall("from_model", None, None, model, NoModel, StoreRaised("AttributeError"))
  ELSE IF _registry[model.type] = Absent
  THEN store_call' = StoreCall("from_model", None, None, model, NoModel, StoreRaised("KeyError"))
  ELSE LET serializable_cls == _registry[model.type] IN
       store_call' = StoreCall("from_model", serializable_cls, model.type, model, model,
                               original_from_model(serializable_cls, model))

\* the models handed to from_model: what to_model gives for an object, and
\* envelopes written by a process with other registrations
StoredModels ==
  {to_model(x) : x \in Objects}
    \cup {Wrapper(n, version, original_to_model(x)) : n \in {"task", "note"}, x \in Objects}

InitStore ==
  /\ agents = RunRoster /\ function_map = NoTable /\ messages = <<>>
  /\ max_round = 10 /\ admin_name = "Admin" /\ func_call_filter = TRUE
  /\ speaker_selection_method = "auto" /\ allow_repeat_speaker = AllowBool(TRUE)
  /\ last_speaker = None /\ sel = NoSel /\ rr_trace = <<>> /\ next_call = NoNextCall
  /\ RunIdle
  /\ StoreIdle

Register ==
  /\ \E c \in Classes, given \in {None, "task", "note"} : register(c, given)
  /\ UNCHANGED <<gcVars, selVars, runVars>>

FromModel ==
  /\ \E model \in StoredModels : from_model(model)
  /\ UNCHANGED <<gcVars, selVars, runVars, _registry, cls_to_model>>

NextStore == Register \/ FromModel
SpecStore == InitStore /\ [][NextStore]_vars

(***************************************************************************)
(* Properties of select_speaker                                            *)
(***************************************************************************)
LastMessage == messages[Len(messages)]
\* function-call routing applies to the ledger as it stands
Routing == func_call_filter /\ messages # <<>> /\ LastMessage.function_call # Absent
Capable == {a \in Range(agents) : LastMessage.function_call \in function_map[a]}
RepeatsDisallowed(last) ==
  IF allow_repeat_speaker.isbool THEN ~allow_repeat_speaker.val
  ELSE last \notin Range(allow_repeat_speaker.list)
AutoPolicy == lower(speaker_selection_method) = "auto"
BackendAsked == sel.called /\ "backend" \in sel.out.consulted
\* the backend's text is the three-field decision: a JSON object with "who" and "what"
WellFormed(resp) == resp.form = "object" /\ resp.who # Absent /\ resp.what # Absent
Malformed(resp) == resp.final /\ ~WellFormed(resp)
RoundOrderFallback ==
  /\ sel.out.kind = "return"
  /\ sel.out.speaker = next_agent(sel.last, sel.out.pool)
  /\ sel.out.directive = None

\* C2: with repeats disallowed for lastSpeaker, select_speaker never returns
\* lastSpeaker, whatever the policy, the ledger and the backend's answer.
C2_NeverReturnsLastSpeaker ==
  (sel.called /\ RepeatsDisallowed(sel.last) /\ sel.out.kind = "return")
    => sel.out.speaker # sel.last

\* the backend names the last speaker, who was filtered out of the pool
C2_LastSpeakerReturned ==
  /\ sel.called /\ AutoPolicy /\ ~Routing
  /\ allow_repeat_speaker = AllowBool(FALSE)
  /\ sel.last = "Coder" /\ "Coder" \notin Range(sel.out.pool)
  /\ sel.out.kind = "return" /\ sel.out.speaker = "Coder"

\* C5: when function-call routing applies and exactly one roster member can
\* execute the requested function, select_speaker returns that member with no
\* directive under every policy, and consults neither the operator, nor the
\* random source, nor the backend.
C5_SingleExecutorShortCircuit ==
  (sel.called /\ Routing /\ Cardinality(Capable) = 1)
    => /\ sel.out.kind = "return"
       /\ sel.out.speaker \in Capable
       /\ sel.out.directive = None
       /\ sel.out.consulted = {}
       /\ sel.out.prompts = 0

C5_Witness ==
  /\ sel.called /\ Routing /\ Capable = {"Coder"}
  /\ lower(speaker_selection_method) = "manual"
  /\ sel.last = "Coder" /\ RepeatsDisallowed("Coder")
  /\ sel.out.kind = "return" /\ sel.out.speaker = "Coder"

\* C6: when function-call routing applies, the returned speaker can always
\* execute the requested function, for every policy and backend response.
C6_SpeakerCanExecute ==
  (sel.called /\ Routing /\ sel.out.kind = "return")
    => sel.out.speaker \in Capable

\* the backend names a participant outside the candidate pool
C6_IncapableReturned ==
  /\ sel.called /\ Routing /\ Cardinality(Capable) = 2
  /\ sel.out.kind = "return"
  /\ sel.out.speaker \notin Capable
  /\ sel.inp.resp.who = sel.out.speaker

\* C7: under the auto policy, a response text that does not parse as the
\* structured decision yields exactly (next_agent(lastSpeaker, pool), None).
C7_MalformedIsRoundOrder ==
  (BackendAsked /\ AutoPolicy /\ Malformed(sel.inp.resp)) => RoundOrderFallback

\* a JSON object without the "what" field
C7_MissingFieldRaises ==
  /\ BackendAsked /\ AutoPolicy
  /\ sel.inp.resp.form = "object" /\ sel.inp.resp.who \in Range(agents)
  /\ sel.inp.resp.what = Absent
  /\ sel.out.kind = "raise" /\ sel.out.error = "KeyError"

\* C8: under the auto policy no text payload of the backend makes
\* select_speaker raise: it always returns a (speaker, directive) pair.
C8_MalformedNeverFatal ==
  (BackendAsked /\ AutoPolicy /\ sel.inp.resp.final) => sel.out.kind = "return"

\* a JSON value that is not an object
C8_NonObjectRaises ==
  /\ BackendAsked /\ AutoPolicy
  /\ sel.inp.resp.form \in {"number", "array"}
  /\ sel.out.kind = "raise" /\ sel.out.error = "TypeError"

\* C9: under the auto policy, no decision available or a well-formed decision
\* naming nobody on the roster yields (next_agent(lastSpeaker, pool), None); a
\* well-formed decision naming a roster member yields that member and the
\* decision's directive text.
C9_BackendDecision ==
  (BackendAsked /\ AutoPolicy)
    => /\ (~sel.inp.resp.final \/ (WellFormed(sel.inp.resp) /\ sel.inp.resp.who \notin Range(agents)))
            => RoundOrderFallback
       /\ (sel.inp.resp.final /\ WellFormed(sel.inp.resp) /\ sel.inp.resp.who \in Range(agents))
            => /\ sel.out.kind = "return"
               /\ sel.out.speaker = sel.inp.resp.who
               /\ sel.out.directive = sel.inp.resp.what

C9_Witness ==
  /\ BackendAsked /\ AutoPolicy
  /\ WellFormed(sel.inp.resp) /\ sel.inp.resp.who = "Nobody"
  /\ sel.last = "Reviewer" /\ sel.out.pool = <<"Admin", "Coder">>
  /\ sel.out.speaker = "Admin" /\ sel.out.directive = None

\* C3 (as claimed): under round_robin with repeats allowed, feeding each
\* returned speaker back visits the roster in order with wrap-around, every
\* member exactly once in every window of roster-length consecutive selections.
RoundRobin == lower(speaker_selection_method) = "round_robin"
RepeatsAllowed == \A a \in Range(agents) : ~RepeatsDisallowed(a)
Successor(a) == agents[((IndexOf(agents, a) + 1) % Len(agents)) + 1]
RosterOrder == \A k \in 1..(Len(rr_trace) - 1) : rr_trace[k + 1] = Successor(rr_trace[k])
EveryWindowVisitsAll ==
  \A k \in 1..(Len(rr_trace) - Len(agents) + 1) :
    {rr_trace[j] : j \in k..(k + Len(agents) - 1)} = Range(agents)
C3_RoundRobinCycle ==
  (RoundRobin /\ RepeatsAllowed) => (RosterOrder /\ EveryWindowVisitsAll)

\* C3 (amended): the same, provided function-call routing does not apply to
\* the ledger (func_call_filter off, or no function_call in the last message).
C3_RoundRobinCycleUnlessRouted ==
  (RoundRobin /\ RepeatsAllowed /\ ~Routing) => (RosterOrder /\ EveryWindowVisitsAll)

C3_Witness ==
  /\ RoundRobin /\ RepeatsAllowed /\ ~Routing
  /\ agents = <<"Admin", "Coder", "Reviewer">>
  /\ rr_trace = <<"Coder", "Reviewer", "Admin", "Coder">>

(***************************************************************************)
(* Properties of the conversations                                         *)
(***************************************************************************)
IsDirective(m) == m.name = Manager /\ m.role = "assistant"
NonDirective(ledger) == SelectSeq(ledger, LAMBDA m : ~IsDirective(m))
Calls(trace, op) == SelectSeq(trace, LAMBDA e : e.op = op)
Appends(trace, what) == SelectSeq(trace, LAMBDA e : e.op = "append" /\ e.to = what)

\* C1: the blocking and the suspendable run, given the same configuration,
\* sender, message and answers, end in the same terminal state: both return
\* (True, None) or both raise the same error, with the same selected speakers
\* and the same non-directive ledger entries.
C1_SameTerminalState ==
  (Ended(pc) /\ Ended(a_pc))
    => /\ a_pc = pc
       /\ a_result = result
       /\ a_error = error
       /\ a_selected = selected
       /\ NonDirective(a_messages) = NonDirective(messages)

\* the blocking run completes its rounds, the suspendable run raises in its first
C1_SuspendableRaises ==
  /\ pc = "done" /\ exit = "last_round" /\ result = "(True, None)"
  /\ Len(selected) = 1
  /\ a_pc = "raised" /\ a_error = "AttributeError" /\ a_result = None
  /\ Len(a_messages) = 1

\* C4: a blocking run with max_round = N that ends neither on a termination
\* message nor on a missing reply invokes the selector exactly N-1 times, and
\* its round N only appends and broadcasts the message; in the scenario
\* (roster Admin, Coder, Reviewer, N = 5, round_robin, repeats disallowed,
\* Admin initiating, every selected speaker replying) the selected speakers
\* are Coder, Reviewer, Admin, Coder.
Scenario ==
  /\ agents = <<"Admin", "Coder", "Reviewer">> /\ max_round = 5
  /\ RoundRobin /\ allow_repeat_speaker = AllowBool(FALSE)
  /\ function_map = NoTable
  /\ Calls(log, "select_speaker") # <<>>
  /\ Calls(log, "select_speaker")[1].to = "Admin"
FullRun == pc = "done" /\ exit \notin {"terminated", "no_reply"}
LastRoundLog == <<Call("append", "message")>> \o Broadcast("send", speaker)
C4_SelectionsPerRun ==
  FullRun
    => /\ exit = "last_round"
       /\ Len(selected) = max_round - 1
       /\ Len(Calls(log, "select_speaker")) = max_round - 1
       /\ Len(Calls(log, "generate_reply")) >= max_round - 1
       /\ Len(Appends(log, "message")) = max_round
       /\ Len(log) >= Len(LastRoundLog)
       /\ SubSeq(log, Len(log) - Len(LastRoundLog) + 1, Len(log)) = LastRoundLog
       /\ (Scenario /\ Calls(log, "KeyboardInterrupt") = <<>>)
            => selected = <<"Coder", "Reviewer", "Admin", "Coder">>

C4_Witness ==
  /\ FullRun /\ Scenario /\ Calls(log, "KeyboardInterrupt") = <<>>
  /\ Len(messages) = 5
  /\ selected = <<"Coder", "Reviewer", "Admin", "Coder">>

\* C10: reset() empties the history and leaves roster, max_round, admin_name,
\* func_call_filter, speaker_selection_method and allow_repeat_speaker as
\* constructed; a conversation started after reset() starts from the state a
\* conversation on a freshly constructed ledger starts from (empty history,
\* the constructed configuration, fresh locals), so it runs the same way.
C10_ResetRestoresFresh ==
  /\ (resets > 0 /\ pc = "idle") => (GroupChatState = built /\ a_messages = <<>>)
  /\ (pc = "round" /\ i = 0)
       => /\ GroupChatState = built
          /\ selected = <<>>
          /\ log = IntroSends

C10_Witness ==
  /\ resets = 1 /\ pc = "done" /\ exit = "last_round"
  /\ Len(messages) = 2 /\ selected # <<>>

(***************************************************************************)
(* Properties of the configuration checks                                  *)
(***************************************************************************)
ValidMethod == lower(speaker_selection_method) \in _VALID_SPEAKER_SELECTION_METHODS
ConfigurationError(out) ==
  /\ out.kind = "raise" /\ out.error = "ValueError"
  /\ out.consulted = {} /\ out.prompts = 0

\* C11: with fewer than 2 roster members select_speaker raises ValueError
\* under every recognized policy and leaves the ledger as it was; with an
\* unrecognized policy it raises ValueError as well, whatever the roster and
\* the ledger, and consults no collaborator.
C11_ConfigurationErrors ==
  [][(~sel.called /\ sel'.called)
       => /\ messages' = messages
          /\ (Len(agents) < 2 \/ ~ValidMethod) => ConfigurationError(sel'.out)]_vars

C11_Witness ==
  /\ sel.called /\ agents = <<"Admin">> /\ Len(messages) = 1
  /\ speaker_selection_method = "manual"
  /\ ConfigurationError(sel.out)

(***************************************************************************)
(* Properties of the manual policy                                         *)
(***************************************************************************)
ManualPolicy == lower(speaker_selection_method) = "manual"
OperatorAsked == sel.called /\ "operator" \in sel.out.consulted
ValidIndex(inp, pool) == IsInt(inp) /\ IntOf(inp) > 0 /\ IntOf(inp) <= Len(pool)
GivesUp(inp) == inp \in {"", "q"}
FailedAttempt(inp, pool) == ~ValidIndex(inp, pool) /\ ~GivesUp(inp)

\* C12: under the manual policy every failed attempt (out-of-range or
\* non-numeric) is followed by another prompt until 3 attempts were made; a
\* valid index returns that candidate with no directive; selection falls
\* through to the automatic selection only on an empty or 'q' input or after
\* the third failed attempt.
C12_ThreeAttempts ==
  (OperatorAsked /\ ManualPolicy)
    => LET n == sel.out.prompts
           pool == sel.out.pool
           answer == sel.inp.ops[n]
       IN  /\ n \in 1..3
           /\ \A k \in 1..(n - 1) : FailedAttempt(sel.inp.ops[k], pool)
           /\ ValidIndex(answer, pool)
                => /\ sel.out.kind = "return"
                   /\ sel.out.speaker = pool[IntOf(answer)]
                   /\ sel.out.directive = None
                   /\ "backend" \notin sel.out.consulted
           /\ GivesUp(answer) => "backend" \in sel.out.consulted
           /\ FailedAttempt(answer, pool) => (n = 3 /\ "backend" \in sel.out.consulted)

\* two failed attempts, and the automatic selection takes over without a third prompt
C12_TwoPromptsOnly ==
  /\ OperatorAsked /\ ManualPolicy
  /\ sel.out.prompts = 2
  /\ FailedAttempt(sel.inp.ops[1], sel.out.pool)
  /\ FailedAttempt(sel.inp.ops[2], sel.out.pool)
  /\ "backend" \in sel.out.consulted

(***************************************************************************)
(* Properties of the rounds of run_chat                                    *)
(***************************************************************************)
\* run_chat has sent the introduction and is about to enter its first round;
\* speaker is still the initiating sender
Introduced == pc = "round" /\ i = 0

\* C13: at the start of a blocking run the introduction goes to every roster
\* member except the initiating sender, before any message is appended; only
\* the first send is non-silent and none requests a reply.
C13_IntroSkipsSender ==
  Introduced
    => LET rcpts == SelectSeq(agents, LAMBDA a : a # speaker)
       IN  /\ log = [k \in 1..Len(rcpts) |-> Ev("send", Manager, rcpts[k], "intro", k # 1)]
           /\ \A k \in 1..Len(log) : ~log[k].request_reply

\* the initiating sender is on the roster and is sent the introduction
C13_SenderIntroduced ==
  /\ Introduced /\ speaker = "Admin"
  /\ \E k \in 1..Len(log) : log[k].what = "intro" /\ log[k].to = "Admin" /\ ~log[k].silent

\* the run whose ledger, position, outcome and calls are given stopped on a
\* termination message: the message is the last ledger entry, appending it was
\* the last thing done, and the run returned normally
StoppedOnTermination(ledger, p, res, err, trace) ==
  /\ p = "done" /\ res = "(True, None)" /\ err = None
  /\ ledger # <<>> /\ ledger[Len(ledger)].term
  /\ trace # <<>> /\ trace[Len(trace)] = Call("append", "message")
\* a termination message is only ever the last entry of the ledger of a stopped run
TerminationIsLast(ledger, p, ex) ==
  \A k \in 1..Len(ledger) :
    ledger[k].term => (k = Len(ledger) /\ p = "done" /\ ex = "terminated")

\* C14: in run_chat and in a_run_chat, a round whose pending message
\* satisfies the termination predicate appends the message and stops at once:
\* no broadcast, no selection and no reply request follows the append, and the
\* run returns (True, None).
C14_TerminationStops ==
  /\ pc # "idle" => TerminationIsLast(messages, pc, exit)
  /\ a_pc # "idle" => TerminationIsLast(a_messages, a_pc, a_exit)
  /\ (pc = "done" /\ exit = "terminated")
       => StoppedOnTermination(messages, pc, result, error, log)
  /\ (a_pc = "done" /\ a_exit = "terminated")
       => StoppedOnTermination(a_messages, a_pc, a_result, a_error, a_log)
  /\ pc \in {"select", "reply"} => ~_is_termination_msg(message)

C14_Witness ==
  /\ pc = "done" /\ exit = "terminated"
  /\ Len(messages) = 2 /\ Len(selected) = 1
  /\ messages[2].term /\ ~messages[1].term
  /\ Len(Calls(log, "generate_reply")) = 1

\* the calls made by run_chat so far, and the ledger entry each append made
IsAppend(e) == e.op = "append"
AppendsUpTo(k) == Cardinality({j \in 1..k : IsAppend(log[j])})
\* log[k] is the interrupt of the selected speaker's reply generation (not of
\* the admin's, which was invoked because of an earlier interrupt)
SpeakerInterrupted(k) ==
  /\ log[k].op = "KeyboardInterrupt"
  /\ ~(k > 2 /\ log[k - 2].op = "KeyboardInterrupt")
HasAdmin == admin_name \in Range(agents)
\* the events after position k up to and including the next selection
UntilNextSelection(k) ==
  {j \in (k + 1)..Len(log) :
     \A h \in (k + 1)..(j - 1) : log[h].op # "select_speaker"}

\* C15: in run_chat, when the selected speaker's reply generation is
\* interrupted and admin_name is on the roster, the admin's reply generation
\* is invoked instead and the admin is the current speaker from then on: its
\* reply is sent by the admin, stamped with the admin's name when appended,
\* broadcast to everyone but the admin, and the admin is the last speaker of
\* the next selection.  When admin_name is not on the roster the interrupt
\* leaves run_chat, and the ledger holds exactly the entries appended before.
C15_InterruptHandling ==
  pc # "idle" =>
    /\ Len(messages) = AppendsUpTo(Len(log))
    /\ \A k \in 1..Len(log) : SpeakerInterrupted(k) =>
         IF HasAdmin
         THEN /\ k < Len(log) /\ log[k + 1] = Call("generate_reply", admin_name)
              /\ (k + 1 = Len(log)) => (pc = "done" /\ exit = "no_reply" /\ speaker = admin_name)
              /\ (k + 2 = Len(log) /\ log[k + 2].op = "send")
                   => (pc = "round" /\ speaker = admin_name)
              /\ \A j \in UntilNextSelection(k + 1) :
                   /\ (log[j].op = "send" /\ log[j].what = "reply") => log[j].from = admin_name
                   /\ (log[j].op = "send" /\ log[j].what = "message") => log[j].to # admin_name
                   /\ log[j].op = "select_speaker" => log[j].to = admin_name
                   /\ (IsAppend(log[j]) /\ messages[AppendsUpTo(j)].role # "function")
                        => messages[AppendsUpTo(j)].name = admin_name
         ELSE /\ k = Len(log) /\ log[k - 1] = Call("generate_reply", log[k].to)
              /\ pc = "raised" /\ error = "KeyboardInterrupt" /\ result = None

\* Coder is interrupted, Admin replies in its place, the reply is appended
\* under Admin's name and the next selection starts from Admin
C15_Witness ==
  /\ pc \in {"reply", "done"} /\ Len(messages) >= 2
  /\ messages[2].name = "Admin"
  /\ \E k \in 1..Len(log) :
       /\ SpeakerInterrupted(k) /\ log[k].to = "Coder"
       /\ \E j \in UntilNextSelection(k + 1) : log[j] = Call("select_speaker", "Admin")

\* the interrupt leaves run_chat when the admin is not on the roster
C15_WitnessPropagated ==
  /\ pc = "raised" /\ error = "KeyboardInterrupt" /\ ~HasAdmin
  /\ Len(messages) = 2 /\ messages[2].name = Manager

\* what run_chat does with the outcome out of a selection that returned
DirectiveHandled(out) ==
  /\ out.kind = "return"
  /\ speaker' = out.speaker
  /\ IF out.directive # None
     THEN /\ log' = Append(log, Call("select_speaker", speaker))
                      \o [k \in 1..Len(agents) |->
                            [op |-> "send", from |-> Manager, to |-> agents[k],
                             what |-> "directive", silent |-> agents[k] # out.speaker,
                             request_reply |-> FALSE]]
                      \o <<Call("append", "directive")>>
          /\ Len(messages') = Len(messages) + 1
          /\ SubSeq(messages', 1, Len(messages)) = messages
          /\ messages'[Len(messages')].role = "assistant"
          /\ messages'[Len(messages')].name = Manager
          /\ messages'[Len(messages')].content = out.directive
     ELSE /\ log' = Append(log, Call("select_speaker", speaker))
          /\ messages' = messages

\* C16: in run_chat, a directive returned by the selector is sent to every
\* roster member (non-silently to the selected speaker only, never requesting
\* a reply), then appended to the ledger under the manager's name with role
\* assistant, all before the speaker's reply generation is invoked; without a
\* directive nothing is appended between the round's message and the reply.
C16_DirectiveBroadcast ==
  [][/\ (pc = "select" /\ pc' = "reply")
          => \E inp \in RunSelInputs : DirectiveHandled(select_speaker(messages, speaker, inp))
     /\ (pc = "reply" /\ pc' # "reply")
          => /\ messages' = messages
             /\ Len(log') > Len(log)
             /\ log'[Len(log) + 1] = Call("generate_reply", speaker)]_vars

C16_Witness ==
  /\ pc = "reply" /\ speaker = "Coder"
  /\ Len(messages) = 2
  /\ messages[2] = DirectiveMsg("directive")
  /\ SubSeq(log, Len(log) - 3, Len(log)) = DirectiveSends("Coder") \o <<Call("append", "directive")>>

\* run_chat stopped because the speaker's reply generation returned None: it
\* returned normally and the reply generation was the last call it made
BlockingStoppedOnNoReply ==
  /\ result = "(True, None)" /\ error = None
  /\ log[Len(log)] = Call("generate_reply", speaker)
  /\ Len(messages) = AppendsUpTo(Len(log))
\* both runs asked the speaker of the same selection, so both were given the same reply
SameReplyStep == Len(a_selected) = Len(selected)

\* C17: when the chosen speaker's reply generation yields None, the run
\* (blocking or suspendable) stops in a normal terminal state: nothing more is
\* appended, broadcast or selected, and the run returns (True, None).
C17_NoReplyStops ==
  (pc = "done" /\ exit = "no_reply")
    => /\ BlockingStoppedOnNoReply
       /\ SameReplyStep
            => (a_pc = "done" /\ a_exit = "no_reply" /\ a_result = "(True, None)"
                /\ a_error = None)

\* the speaker yields None: run_chat returns (True, None), a_run_chat raises
C17_SuspendableRaisesOnNoReply ==
  /\ pc = "done" /\ exit = "no_reply" /\ result = "(True, None)"
  /\ SameReplyStep /\ Len(selected) = 1
  /\ a_pc = "raised" /\ a_error = "AttributeError" /\ a_result = None

\* every entry of the ledger that is no function result has a name
AllNamed(ledger) ==
  \A k \in 1..Len(ledger) :
    ledger[k].role # "function" => ledger[k].name \notin {Absent, None}
\* the step appended one round message, named after spk unless its role is function
AppendedFor(before, after, spk) ==
  /\ Len(after) = Len(before) + 1
  /\ SubSeq(after, 1, Len(before)) = before
  /\ after[Len(after)].role # "function" => after[Len(after)].name = spk

\* C18: in every reachable state of a run every ledger message whose role is
\* not function has a name; a round message is appended under the name of the
\* participant that is the current speaker at that moment, a directive under
\* the manager's name.
C18_MessagesAreNamed ==
  /\ [](AllNamed(messages) /\ AllNamed(a_messages))
  /\ [][/\ (pc = "round" /\ pc' # "round") => AppendedFor(messages, messages', speaker)
        /\ (a_pc = "round" /\ a_pc' # "round") => AppendedFor(a_messages, a_messages', a_speaker)
        /\ (pc = "select" /\ Len(messages') > Len(messages))
             => messages'[Len(messages')].name = Manager]_vars

C18_Witness ==
  /\ pc = "done" /\ Len(messages) = 3
  /\ messages[1].name = Outsider /\ messages[1].role = "user"
  /\ messages[2].name = Manager /\ messages[2].role = "assistant"
  /\ messages[3].name = "Coder"
  /\ a_messages = <<messages[1]>>

(***************************************************************************)
(* Properties of function-call routing and of next_agent                   *)
(***************************************************************************)
\* the roster members with a non-empty function table, in roster order
WithFunctionMap == SelectSeq(agents, LAMBDA a : function_map[a] # {})
NoneCapable == sel.called /\ Routing /\ Capable = {}

\* C19: in function-call routing with no roster member able to execute the
\* requested function, the pool is the members with a non-empty function
\* table: a single such member is returned with no directive; with none,
\* select_speaker raises the no-eligible-speaker ValueError whatever the last
\* message looks like; with two or more, selection goes on with that pool
\* through repeat filtering and policy dispatch.
C19_FunctionMapFallback ==
  NoneCapable
    => CASE Len(WithFunctionMap) = 1 ->
              /\ sel.out.kind = "return" /\ sel.out.speaker = WithFunctionMap[1]
              /\ sel.out.directive = None /\ sel.out.consulted = {}
         [] Len(WithFunctionMap) = 0 ->
              sel.out.kind = "raise" /\ sel.out.error = "ValueError"
         [] OTHER ->
              sel.out = dispatch(sel.last, WithFunctionMap, ~RepeatsDisallowed(sel.last), sel.inp)

\* the last message has no name: building the error text raises KeyError
C19_KeyErrorInstead ==
  /\ NoneCapable /\ WithFunctionMap = <<>>
  /\ LastMessage.name = Absent
  /\ sel.out.kind = "raise" /\ sel.out.error = "KeyError"

\* the reference: the first pool member met when walking the roster
\* cyclically from the position just after current's (after position 0 when
\* current is not on the roster)
next_in_order(current, pool) ==
  LET n == Len(agents)
      p == IF InSeq(agents, current) THEN IndexOf(agents, current) ELSE 0
      steps == {k \in 1..n : InSeq(pool, agents[((p + k) % n) + 1])}
  IN  agents[((p + (CHOOSE k \in steps : \A j \in steps : k <= j)) % n) + 1]

\* C20: for every roster, every current participant and every non-empty pool
\* drawn from the roster, next_agent equals the one reference function, for
\* the full-roster pool and for a strict-subset pool alike.
C20_NextAgentIsNextInOrder ==
  next_call.called
    => next_call.result = next_in_order(next_call.current, next_call.pool)

\* current is not on the roster and the pool is a strict subset holding the
\* first roster member: the walk starts at the first member, not after it
C20_SubsetStartsAtFirst ==
  /\ next_call.called
  /\ agents = <<"Admin", "Coder", "Reviewer">>
  /\ next_call.current = Outsider /\ next_call.pool = <<"Admin", "Coder">>
  /\ next_call.result = "Admin"
  /\ next_in_order(Outsider, <<"Admin", "Coder">>) = "Coder"
  /\ next_agent(Outsider, agents) = "Coder"

(***************************************************************************)
(* Properties of the broadcast and of the length of a run                  *)
(***************************************************************************)
\* the calls a round added to trace: the append, then one send of the message
\* to each roster member other than spk, none to spk, none requesting a reply,
\* and nothing else (the selection is not part of the round)
AppendedThenBroadcast(before, after, op, spk) ==
  LET rcpts == Range(agents) \ {spk}
      n == Len(before)
  IN  /\ Len(after) = n + 1 + Cardinality(rcpts)
      /\ SubSeq(after, 1, n) = before
      /\ after[n + 1] = Call("append", "message")
      /\ \A a \in rcpts :
           Cardinality({k \in (n + 2)..Len(after) : after[k].to = a}) = 1
      /\ \A k \in (n + 2)..Len(after) :
           /\ after[k].op = op /\ after[k].what = "message"
           /\ after[k].from = Manager /\ after[k].to # spk
           /\ ~after[k].request_reply

\* C21: in run_chat and in a_run_chat, every round whose pending message does
\* not satisfy the termination predicate, the final permitted round included,
\* sends the message exactly once to every roster member other than the
\* current speaker and never to the speaker, requesting no reply, after the
\* append and before the selector is invoked.
C21_BroadcastExceptSpeaker ==
  [][/\ (pc = "round" /\ pc' # "round" /\ ~_is_termination_msg(message))
          => /\ AppendedThenBroadcast(log, log', "send", speaker)
             /\ pc' \in {"select", "done"}
     /\ (a_pc = "round" /\ a_pc' # "round" /\ ~_is_termination_msg(a_message))
          => /\ AppendedThenBroadcast(a_log, a_log', "a_send", a_speaker)
             /\ a_pc' \in {"select", "done"}
     /\ (pc = "select" /\ pc' # "select")
          => (Len(log') > Len(log) /\ log'[Len(log) + 1] = Call("select_speaker", speaker))]_vars

\* the final permitted round of a run in which Coder spoke last
C21_Witness ==
  /\ pc = "done" /\ exit = "last_round" /\ speaker = "Coder"
  /\ Len(messages) = 2
  /\ SubSeq(log, Len(log) - 2, Len(log))
       = <<Call("append", "message"),
           Ev("send", Manager, "Admin", "message", TRUE),
           Ev("send", Manager, "Reviewer", "message", TRUE)>>


\* the loop iterations begun so far and the ledger entries the run has added
RunBounded ==
  (Running(pc) \/ Ended(pc)) =>
    /\ max_round > 0 => i + 1 <= max_round
    /\ Len(Appends(log, "message")) <= max_round
    /\ Len(Appends(log, "directive")) <= IF max_round > 0 THEN max_round - 1 ELSE 0
    /\ Len(messages) = Len(Appends(log, "message")) + Len(Appends(log, "directive"))
\* a step of the run leaves every earlier ledger entry in place
LedgerOnlyAppended ==
  Running(pc) =>
    /\ Len(messages') >= Len(messages)
    /\ SubSeq(messages', 1, Len(messages)) = messages

\* C22: provided each external call returns, every run_chat ends after at most
\* max_round loop iterations; during the run the ledger only grows by appends
\* (earlier entries are never changed or removed); and the ledger grows by at
\* most max_round round messages plus at most max_round - 1 directive messages.
C22_RunTerminatesBounded ==
  /\ []RunBounded
  /\ [][LedgerOnlyAppended]_messages
  /\ (Running(pc) ~> Ended(pc))

\* a run of two rounds that ended with both round messages and a directive
C22_Witness ==
  /\ pc = "done" /\ exit = "last_round" /\ max_round = 2 /\ i = 1
  /\ Len(messages) = 3
  /\ Len(Appends(log, "message")) = 2
  /\ Len(Appends(log, "directive")) = 1


(***************************************************************************)
(* Properties of the serializable registry                                 *)
(***************************************************************************)
registered_name(c) == CHOOSE n \in TypeNames : _registry[n] = c
\* to_model of a registered class gives the envelope: tag, version, payload
EnvelopeProduced ==
  \A x \in Objects :
    x.cls \in registered_classes
      => to_model(x) = Wrapper(registered_name(x.cls), version, original_to_model(x))
\* the last call was from_model on the envelope of x, whose class is registered
RoundTripOf(x) ==
  /\ x.cls \in registered_classes
  /\ store_call.op = "from_model"
  /\ store_call.model = to_model(x)
\* from_model dispatches on the tag, hands over the payload and rebuilds x
PayloadHandedOver ==
  \A x \in Objects :
    RoundTripOf(x)
      => /\ store_call.cls = _registry[store_call.model.type]
         /\ store_call.type_name = registered_name(x.cls)
         /\ store_call.handed = store_call.model.data
         /\ store_call.out = StoreReturned(x)
\* a register step that raised: which registrations raise, and what they leave
RejectedRegistration ==
  /\ store_call'.op = "register" /\ store_call'.out.kind = "raise"
       => UNCHANGED <<_registry, cls_to_model>>
  /\ store_call'.op = "register"
       => LET c == store_call'.cls
              type_name == IF store_call'.type_name = None
                           THEN default_type_name(c) ELSE store_call'.type_name
          IN  (store_call'.out.kind = "raise")
                <=> \/ ~issubclass_Serializable(c)
                    \/ c \in registered_classes
                    \/ type_name \in registered_names

\* C23: for a class registered with SerializableRegistry.register, to_model
\* produces an envelope (type tag, version, data), and
\* SerializableRegistry.from_model on that envelope checks the tag against the
\* registered name and hands the class's original from_model the inner payload
\* (data), not the envelope, so from_model(to_model(x)) reconstructs x; a
\* rejected registration (duplicate type name, duplicate class, class that is
\* not Serializable) leaves the registry and the class's to_model unchanged.
C23_EnvelopeRoundTrip ==
  /\ [](EnvelopeProduced /\ PayloadHandedOver)
  /\ [][RejectedRegistration]_storeVars

\* from_model(to_model(x)) for a registered Task: the class's from_model is
\* handed the envelope itself and does not rebuild x
C23_EnvelopeHandedOver ==
  /\ RoundTripOf(Obj("Task", "a"))
  /\ store_call.handed = store_call.model
  /\ store_call.handed.kind = "wrapper"
  /\ store_call.out = StoreRaised("AttributeError")
====
